---- MODULE Spec2Model ----
(***************************************************************************)
(* Model of the Crane class of src/src/crane.py: the per-frame retargeting *)
(* of a tracked limb onto the right arm's joint angles, the clamping of    *)
(* s0, s1 and e1, and the gripper command derived from the second limb.    *)
(*                                                                         *)
(* Numbers.  Angles are integers in milliradians (0.8 rad = 800,           *)
(* -0.25 rad = -250, math.pi = 3142, math.pi/4 = 785).  Point coordinates  *)
(* are integers (one unit = one metre); pose coordinates are millimetres.  *)
(* A float that is not a number is the sentinel NaN: arithmetic on it      *)
(* yields NaN and every ordering comparison with it is false, as for       *)
(* Python floats.                                                          *)
(*                                                                         *)
(* vector_operations.py is not among the sources; its four functions are   *)
(* modelled from the specification's section 4.1.                          *)
(***************************************************************************)
EXTENDS Integers, Sequences, FiniteSets, TLC

VARIABLES
    crane_l_angles,       \* self.crane_l_angles
    neutral_position,     \* self.neutral_position
    gripper_state,        \* self.gripper_state
    gripper_state_timer,  \* self.gripper_state_timer
    zero_len,             \* what angle_between_vectors does on a zero-length vector
    gripper,              \* the gripper device: last command it was given
    pc,                   \* "idle", "returned", "raised", "mutated"
    call,                 \* "none", "joint", "pose"
    frame,                \* the points of the call in progress
    loc,                  \* locals of human_to_baxter: thetas and s0, s1, e0, e1
    angles,               \* the list 'angles' of desired_joint_vals
    cmds,                 \* gripper commands issued by the call
    result,               \* the value the call returned
    aliased,              \* the returned mapping is the object self.crane_l_angles
    probe,                \* a frame whose first outcome is remembered
    probeOut              \* the outcome remembered for probe

vars == <<crane_l_angles, neutral_position, gripper_state, gripper_state_timer,
          zero_len, gripper, pc, call, frame, loc, angles, cmds, result,
          aliased, probe, probeOut>>

engine == <<crane_l_angles, neutral_position, gripper_state, gripper_state_timer>>

----------------------------------------------------------------------------
(* Bounds of the model *)

\* L1 length of the forearm displacements (hand - elbow) that are enumerated
MaxReach == 1
\* distance from each clamp bound / threshold of the sampled angle values
Margin == 1

----------------------------------------------------------------------------
(* Floats *)

Pi == 3142
HalfPi == 1571
QuarterPi == 785
NaN == -1000000

IsNaN(a) == a = NaN
Sub(a, b) == IF IsNaN(a) \/ IsNaN(b) THEN NaN ELSE a - b
Neg(a) == IF IsNaN(a) THEN NaN ELSE 0 - a
Lt(a, b) == ~IsNaN(a) /\ ~IsNaN(b) /\ a < b
Gt(a, b) == ~IsNaN(a) /\ ~IsNaN(b) /\ a > b

----------------------------------------------------------------------------
(* vector_operations (section 4.1 of the specification) *)

Dot(a, b) == a[1] * b[1] + a[2] * b[2] + a[3] * b[3]
NormSq(a) == Dot(a, a)

\* vectorFromPoints(tail, head) = head - tail
make_vector_from_POINTS(p1, p2) == <<p2[1] - p1[1], p2[2] - p1[2], p2[3] - p1[3]>>

\* cos and cos^2 in fixed point (unit 1/CosScale), t in milliradians, 0 =< t =< HalfPi
CosScale == 10000
CosFix(t) ==
    LET x  == (t * t) \div 100
        a4 == CosScale - (x \div 56)
        a3 == CosScale - ((x * a4) \div (30 * CosScale))
        a2 == CosScale - ((x * a3) \div (12 * CosScale))
    IN  CosScale - ((x * a2) \div (2 * CosScale))
CosSqFix(t) == (CosFix(t) * CosFix(t)) \div CosScale

\* the least t in lo..hi with cos^2(t) =< q (cos^2 decreases on 0..HalfPi)
RECURSIVE AcosSqSearch(_, _, _)
AcosSqSearch(q, lo, hi) ==
    IF lo >= hi THEN lo
    ELSE LET mid == (lo + hi) \div 2
         IN  IF CosSqFix(mid) <= q THEN AcosSqSearch(q, lo, mid)
             ELSE AcosSqSearch(q, mid + 1, hi)

\* angleBetween(a, b) = acos(dot(a,b) / (|a||b|)), unsigned, in 0..Pi;
\* undefined (NaN here) when either vector has zero length
angle_between_vectors(a, b) ==
    LET d == Dot(a, b)
        n == NormSq(a) * NormSq(b)
    IN  IF n = 0 THEN NaN
        ELSE IF d = 0 THEN HalfPi
        ELSE LET t == AcosSqSearch((d * d * CosScale) \div n, 0, HalfPi)
             IN  IF d > 0 THEN t ELSE Pi - t

\* projectOntoPlane(v, planeNormal, referenceAxis): v without its component
\* along planeNormal
vector_projection_onto_plane(v, n, ref) ==
    LET k == Dot(v, n)
        m == NormSq(n)
    IN  <<v[1] - ((k * n[1]) \div m), v[2] - ((k * n[2]) \div m),
          v[3] - ((k * n[3]) \div m)>>

\* shortestVectorPointToLine(point, lineDir, otherDir, lineOrigin): the
\* perpendicular from point to the line through lineOrigin along lineDir,
\* here multiplied by |lineDir|^2 > 0 to stay in the integers (the angle it
\* makes with another vector is the same); zero when lineDir is zero or the
\* point lies on the line
shortest_vector_from_point_to_vector(p, v1, v2, o) ==
    LET w == make_vector_from_POINTS(o, p)
        k == Dot(w, v1)
        m == NormSq(v1)
    IN  <<k * v1[1] - m * w[1], k * v1[2] - m * w[2], k * v1[3] - m * w[3]>>

----------------------------------------------------------------------------
(* Dictionaries *)

EmptyMap == [k \in {} |-> 0]

\* dict(zip(names, vals))
ZipDict(names, vals) ==
    LET n == IF Len(names) < Len(vals) THEN Len(names) ELSE Len(vals)
    IN  [k \in {names[i] : i \in 1..n} |->
            vals[CHOOSE i \in 1..n : names[i] = k /\ \A j \in (i+1)..n : names[j] # k]]

\* dict(a, **b): the entries of a, overridden and extended by those of b
MergeDict(a, b) ==
    [k \in (DOMAIN a) \cup (DOMAIN b) |-> IF k \in DOMAIN b THEN b[k] ELSE a[k]]

----------------------------------------------------------------------------
(* Crane.__init__ *)

\* self.arm.joint_names() of this mutant: the arm was opened as Limb('left')
LeftArmJointNames == <<"left_s0", "left_s1", "left_e0", "left_e1",
                       "left_w0", "left_w1", "left_w2">>

\* self.arm.joint_names() of baxter_interface.Limb('right')
ArmJointNames == <<"right_s0", "right_s1", "right_e0", "right_e1",
                   "right_w0", "right_w1", "right_w2">>

NeutralPosition == ZipDict(ArmJointNames, <<0, 0, 1570, 0, 0, 0, 0>>)

CraneLAngles == [left_s0 |-> 350, left_s1 |-> 0, left_e0 |-> 0, left_e1 |-> 1570,
                 left_w0 |-> 0, left_w1 |-> 0, left_w2 |-> 0]

----------------------------------------------------------------------------
(* Inputs *)

Origin == <<0, 0, 0>>
Abs(i) == IF i < 0 THEN 0 - i ELSE i
Ball(r) == {p \in (-r..r) \X (-r..r) \X (-r..r) : Abs(p[1]) + Abs(p[2]) + Abs(p[3]) <= r}
Add(p, d) == <<p[1] + d[1], p[2] + d[2], p[3] + d[3]>>

MkFrame(l, r) == [l_sh |-> l[1], l_el |-> l[2], l_ha |-> l[3],
                  r_sh |-> r[1], r_el |-> r[2], r_ha |-> r[3]]

\* the tracked limbs: shoulder at the origin (every computation uses
\* differences of points only), elbow one step away or on the shoulder,
\* hand within MaxReach of the elbow or on it
LeftLimbs == {<<Origin, el, Add(el, d)>> : el \in Ball(1), d \in Ball(MaxReach)}
RightLimbs == {<<Origin, el, Add(el, d)>> : el \in {Origin, <<1, 0, 0>>}, d \in Ball(MaxReach)}
Torsos == {<<0, 1, 1>>}

NoFrame == MkFrame(<<Origin, Origin, Origin>>, <<Origin, Origin, Origin>>)

\* section 8: straight arm hanging down, second limb bent by a right angle
ScenarioFrame == MkFrame(<<Origin, <<0, -1, 0>>, <<0, -2, 0>>>>,
                         <<Origin, <<1, 0, 0>>, <<1, 1, 0>>>>)
\* a bent mimicked limb with the second limb fully extended
ExtendedFrame == MkFrame(<<Origin, <<1, 0, 0>>, <<1, 1, 0>>>>,
                         <<Origin, <<1, 0, 0>>, <<2, 0, 0>>>>)
\* a bent mimicked limb with the second limb bent by a right angle
BentFrame == MkFrame(<<Origin, <<1, 0, 0>>, <<1, 1, 0>>>>,
                     <<Origin, <<1, 0, 0>>, <<1, 1, 0>>>>)
ProbeFrames == {ScenarioFrame, ExtendedFrame, BentFrame}

\* values an angle_between_vectors call may return, around the bounds they
\* are compared with
Around(v) == (v - Margin)..(v + Margin)
S0Thetas == {0, Pi, NaN} \cup Around(QuarterPi - 250) \cup Around(QuarterPi + 1600)
S1Thetas == {0, Pi, NaN} \cup Around(900) \cup Around(2000)
E0Thetas == {0, HalfPi, NaN}
E1Thetas == {0, Pi, NaN} \cup Around(100) \cup Around(2500)
GripThetas == {0, HalfPi, NaN} \cup Around(800)

NoLoc == [t_s0 |-> NaN, t_s1 |-> NaN, t_e0 |-> NaN, t_e1 |-> NaN, t_g |-> NaN,
          up |-> FALSE, s0 |-> NaN, s1 |-> NaN, e0 |-> NaN, e1 |-> NaN]

NoOutcome == [seen |-> FALSE, again |-> FALSE, pc |-> "idle", cmds |-> <<>>,
              result |-> EmptyMap]

----------------------------------------------------------------------------
(* Crane.human_to_baxter and Crane.check_angles *)

\* the five angle_between_vectors results of human_to_baxter for a frame, and
\* the outcome of the test l_el.y > l_sh.y
HumanThetas(f) ==
    LET l_upper_arm == make_vector_from_POINTS(f.l_sh, f.l_el)
        l_forearm   == make_vector_from_POINTS(f.l_el, f.l_ha)
        v_xz        == vector_projection_onto_plane(l_upper_arm, <<0, 0, -1>>, <<-1, 0, 0>>)
        n_upper_arm == shortest_vector_from_point_to_vector(f.l_ha, l_upper_arm,
                                                            l_forearm, f.l_sh)
        r_upper_arm == make_vector_from_POINTS(f.r_sh, f.r_el)
        r_forearm   == make_vector_from_POINTS(f.r_el, f.r_ha)
    IN  [s0 |-> angle_between_vectors(v_xz, <<-1, 0, 0>>),
         s1 |-> angle_between_vectors(l_upper_arm, v_xz),
         e0 |-> angle_between_vectors(n_upper_arm, <<0, 1, 0>>),
         e1 |-> angle_between_vectors(l_upper_arm, l_forearm),
         g  |-> angle_between_vectors(r_upper_arm, r_forearm),
         up |-> f.l_el[2] > f.l_sh[2]]

\* an angle_between_vectors call that fails instead of returning
AngleFails(theta) == zero_len = "raise" /\ IsNaN(theta)

JointS0(theta) == Sub(theta, QuarterPi)
JointS1(theta, up) == IF up THEN theta ELSE Neg(theta)

\* mutants of the clamps: no upper bound; the two snapped values swapped
ClampS0NoUpper(s0) == IF Lt(-250, s0) THEN s0 ELSE -250
ClampS1Swapped(s1) ==
    IF Lt(-2000, s1) /\ Lt(s1, 900) THEN s1
    ELSE IF Lt(-2000, s1) THEN -2000
    ELSE 900

ClampS0(s0) ==
    IF Lt(-250, s0) /\ Lt(s0, 1600) THEN s0
    ELSE IF Lt(-250, s0) THEN 1600
    ELSE -250

ClampS1(s1) ==
    IF Lt(-2000, s1) /\ Lt(s1, 900) THEN s1
    ELSE IF Lt(-2000, s1) THEN 900
    ELSE -2000

\* mutant: values at or under the lower bound of e1 are kept
ClampE1NoLower(e1) == IF Lt(e1, 2500) THEN e1 ELSE 2500

ClampE1(e1) ==
    IF Lt(100, e1) /\ Lt(e1, 2500) THEN e1
    ELSE IF Lt(100, e1) THEN 2500
    ELSE 100

\* mutant of check_angles: e0 appended after e1
check_angles_e0_late(s0, s1, e0, e1, w0, w1, w2, a) ==
    a \o <<ClampS0(s0), ClampS1(s1), ClampE1(e1), e0>> \o <<w0, w1, w2>>

\* the list 'angles' after check_angles(s0, ..., w2, angles)
check_angles(s0, s1, e0, e1, w0, w1, w2, a) ==
    a \o <<ClampS0(s0), ClampS1(s1), e0, ClampE1(e1)>> \o <<w0, w1, w2>>

\* mutants of the gripper test: a non-strict threshold; a command that
\* toggles on every bent frame
GripperClosesAtThreshold(theta) == ~IsNaN(theta) /\ theta >= 800
GripperToggles(theta) == Gt(theta, 800) /\ gripper # "closed"

\* human_to_baxter's return value: theta > 0.8
GripperShouldClose(theta) == Gt(theta, 800)

\* mutant: the engine's own dictionary is updated and returned
ReturnsEngineMapping == FALSE

\* dict(self.crane_l_angles, **r_positions) is a new dictionary
ReturnsFreshMapping == TRUE

----------------------------------------------------------------------------
(* Operations *)

\* the outcome of the first call on the probe frame is kept, and that the
\* frame came again is noted
Remember(f, out) ==
    probeOut' = IF f # probe THEN probeOut
                ELSE IF ~probeOut.seen THEN out
                ELSE [probeOut EXCEPT !.again = TRUE]

\* desired_joint_vals on frame f, t being what angle_between_vectors returns
\* at each of human_to_baxter's five calls
desired_joint_vals(f, t) ==
    LET failsEarly  == AngleFails(t.s0) \/ AngleFails(t.s1) \/ AngleFails(t.e0)
                       \/ AngleFails(t.e1)
        s0          == JointS0(t.s0)
        s1          == JointS1(t.s1, t.up)
        a           == check_angles(s0, s1, t.e0, t.e1, -1570, 0, -300, <<>>)
        close       == GripperShouldClose(t.g)
        r_positions == ZipDict(ArmJointNames, <<a[1], a[2], a[3], a[4], a[5], a[6], a[7]>>)
        ret         == MergeDict(crane_l_angles, r_positions)
    IN  /\ pc = "idle"
        /\ call' = "joint"
        /\ frame' = f
        /\ loc' = [t_s0 |-> t.s0, t_s1 |-> t.s1, t_e0 |-> t.e0, t_e1 |-> t.e1,
                   t_g |-> t.g, up |-> t.up, s0 |-> s0, s1 |-> s1, e0 |-> t.e0,
                   e1 |-> t.e1]
        /\ IF failsEarly
           THEN /\ pc' = "raised"
                /\ angles' = <<>>
                /\ cmds' = <<>>
                /\ result' = EmptyMap
                /\ UNCHANGED <<gripper, aliased, crane_l_angles>>
           ELSE IF AngleFails(t.g)
           THEN /\ pc' = "raised"
                /\ angles' = a
                /\ cmds' = <<>>
                /\ result' = EmptyMap
                /\ UNCHANGED <<gripper, aliased, crane_l_angles>>
           ELSE /\ pc' = "returned"
                /\ angles' = a
                /\ cmds' = <<IF close THEN "close" ELSE "open">>
                /\ gripper' = IF close THEN "closed" ELSE "open"
                /\ result' = ret
                /\ aliased' = ~ReturnsFreshMapping
                /\ crane_l_angles' = IF ReturnsFreshMapping THEN crane_l_angles ELSE ret
        /\ Remember(f, [seen |-> TRUE, again |-> FALSE, pc |-> pc', cmds |-> cmds',
                        result |-> result'])
        /\ UNCHANGED <<neutral_position, gripper_state, gripper_state_timer,
                       zero_len, probe>>

\* desired_pose_vals on frame f and the torso point, theta being what
\* angle_between_vectors returns.  arm_length and RJ_ARM_LENGTH are computed
\* and never used (scaling = 1.0).
desired_pose_vals(f, torso, theta) ==
    LET x     == (torso[3] - f.l_ha[3]) * 1000 + 200
        y     == (f.l_ha[1] - torso[1]) * 1000
        z     == (torso[2] - f.l_ha[2]) * 1000 - 300
        pose  == [x |-> x, y |-> y, z |-> z, roll |-> 0, pitch |-> Pi, yaw |-> 0]
        close == Gt(theta, 800)
    IN  /\ pc = "idle"
        /\ call' = "pose"
        /\ frame' = f
        /\ loc' = [NoLoc EXCEPT !.t_g = theta]
        /\ angles' = <<>>
        /\ IF AngleFails(theta)
           THEN /\ pc' = "raised"
                /\ cmds' = <<>>
                /\ result' = EmptyMap
                /\ UNCHANGED gripper
           ELSE /\ pc' = "returned"
                /\ cmds' = <<IF close THEN "close" ELSE "open">>
                /\ gripper' = IF close THEN "closed" ELSE "open"
                /\ result' = pose
        /\ aliased' = FALSE
        /\ UNCHANGED <<engine, zero_len, probe, probeOut>>

\* the tracker delivers a frame and the caller asks for joint values
JointFrame ==
    pc = "idle" /\ \E l \in LeftLimbs, r \in RightLimbs :
        desired_joint_vals(MkFrame(l, r), HumanThetas(MkFrame(l, r)))

\* the tracker delivers a frame and the caller asks for a pose
PoseFrame ==
    pc = "idle" /\ \E l \in LeftLimbs, r \in RightLimbs, torso \in Torsos :
        desired_pose_vals(MkFrame(l, r), torso, HumanThetas(MkFrame(l, r)).g)

\* desired_joint_vals with the vector operations left open: each
\* angle_between_vectors call returns any of the sampled values
JointAngles ==
    pc = "idle" /\ \E a \in S0Thetas, b \in S1Thetas, c \in E0Thetas, d \in E1Thetas,
       g \in GripThetas, u \in BOOLEAN :
        desired_joint_vals(NoFrame, [s0 |-> a, s1 |-> b, e0 |-> c, e1 |-> d,
                                     g |-> g, up |-> u])

\* the caller writes into the mapping it was returned
CallerMutates ==
    /\ pc = "returned"
    /\ call = "joint"
    /\ \E k \in {"left_s0", "right_s0"} :
          /\ result' = [result EXCEPT ![k] = 3000]
          /\ crane_l_angles' = IF aliased THEN result' ELSE crane_l_angles
    /\ pc' = "mutated"
    /\ UNCHANGED <<neutral_position, gripper_state, gripper_state_timer, zero_len,
                   gripper, call, frame, loc, angles, cmds, aliased, probe, probeOut>>

\* the caller is done with the frame: the per-frame data is dropped
Discard ==
    /\ pc # "idle"
    /\ pc' = "idle"
    /\ call' = "none"
    /\ frame' = NoFrame
    /\ loc' = NoLoc
    /\ angles' = <<>>
    /\ cmds' = <<>>
    /\ result' = EmptyMap
    /\ aliased' = FALSE
    /\ UNCHANGED <<engine, zero_len, gripper, probe, probeOut>>

InitEngine ==
    /\ neutral_position = NeutralPosition
    /\ crane_l_angles = CraneLAngles
    /\ gripper_state = TRUE
    /\ gripper_state_timer = 0

InitCall ==
    /\ zero_len \in {"raise", "nan"}
    /\ gripper = "unknown"
    /\ pc = "idle"
    /\ call = "none"
    /\ frame = NoFrame
    /\ loc = NoLoc
    /\ angles = <<>>
    /\ cmds = <<>>
    /\ result = EmptyMap
    /\ aliased = FALSE
    /\ probeOut = NoOutcome

Init == InitEngine /\ InitCall /\ probe \in ProbeFrames

Next == JointFrame \/ PoseFrame \/ CallerMutates \/ Discard

Spec == Init /\ [][Next]_vars

InitAngles == InitEngine /\ InitCall /\ probe = ScenarioFrame

NextAngles == JointAngles \/ Discard

SpecAngles == InitAngles /\ [][NextAngles]_vars

----------------------------------------------------------------------------
(* Claims *)

Done == call = "joint" /\ pc = "returned"
Ended == call = "joint" /\ pc \in {"returned", "raised"}
Max(a, b) == IF a > b THEN a ELSE b
Min(a, b) == IF a < b THEN a ELSE b
Saturate(lo, hi, v) == Max(lo, Min(hi, v))
Undefined == IsNaN(loc.t_s0) \/ IsNaN(loc.t_s1) \/ IsNaN(loc.t_e0)
             \/ IsNaN(loc.t_e1) \/ IsNaN(loc.t_g)
SameSecondLimb(f, g) == f.r_sh = g.r_sh /\ f.r_el = g.r_el /\ f.r_ha = g.r_ha

\* C1: whatever angle_between_vectors returned, the mapping desired_joint_vals
\* returns has right_s0 in [-0.25, 1.60], right_s1 in [-2.00, 0.90] and
\* right_e1 in [0.10, 2.50]; a call fails only where an angle is undefined,
\* never because a value is out of range.
C1_ClampedInRange ==
    /\ Done => /\ result["right_s0"] \in -250..1600
               /\ result["right_s1"] \in -2000..900
               /\ result["right_e1"] \in 100..2500
    /\ (call = "joint" /\ pc = "raised") => Undefined

C1_Witness ==
    Done /\ Gt(loc.s0, 1600) /\ Lt(loc.s1, -2000) /\ Lt(loc.e1, 100)

\* C2: for each clamped axis check_angles appends max(lo, min(hi, v)): v
\* itself strictly inside the bounds, hi for v >= hi, lo for v =< lo.
C2_ClampIsSaturation ==
    (call = "joint" /\ Len(angles) = 7) =>
        /\ ~IsNaN(loc.s0) => angles[1] = Saturate(-250, 1600, loc.s0)
        /\ ~IsNaN(loc.s1) => angles[2] = Saturate(-2000, 900, loc.s1)
        /\ ~IsNaN(loc.e1) => angles[4] = Saturate(100, 2500, loc.e1)

C2_Witness ==
    Done /\ loc.s0 = 1600 /\ loc.s1 = -2000 /\ loc.e1 = 100
         /\ angles[1] = 1600 /\ angles[2] = -2000 /\ angles[4] = 100

\* C3: a call that gets to the gripper commands close exactly when the second
\* limb's angle theta2 is strictly greater than 0.8 and open otherwise
\* (theta2 = 0.8 and theta2 = 0 open, theta2 = pi/2 closes); a call that
\* returns has issued its command.
C3_CloseIffAboveThreshold ==
    /\ Ended => /\ cmds \in {<<>>, <<"close">>, <<"open">>}
                /\ cmds = <<"close">> => (~IsNaN(loc.t_g) /\ loc.t_g > 800)
                /\ cmds = <<"open">> => (IsNaN(loc.t_g) \/ loc.t_g <= 800)
    /\ Done => cmds # <<>>
    /\ (Done /\ loc.t_g = HalfPi) => gripper = "closed"
    /\ (Done /\ loc.t_g \in {0, 800}) => gripper = "open"

C3_Witness == Done /\ loc.t_g = 800 /\ cmds = <<"open">>

\* C4: the seven left_* entries of the returned mapping are the fixed pose
\* (0.35, 0.00, 0.00, 1.57, 0.00, 0.00, 0.00) whatever the six points are.
C4_FixedArmKept ==
    Done => /\ result["left_s0"] = 350 /\ result["left_s1"] = 0
            /\ result["left_e0"] = 0 /\ result["left_e1"] = 1570
            /\ result["left_w0"] = 0 /\ result["left_w1"] = 0
            /\ result["left_w2"] = 0

C4_Witness ==
    Done /\ frame = BentFrame /\ result["left_s0"] = 350 /\ result["right_s0"] = 1600

C6_SecondLimbAloneDecides ==
    /\ (Ended /\ probeOut.seen /\ SameSecondLimb(frame, probe)) =>
           cmds = probeOut.cmds
    /\ (Ended /\ SameSecondLimb(frame, ExtendedFrame)) => cmds = <<"open">>

\* C7: a frame with a zero-length vector in an angle computation is a no-op:
\* no error escapes the call, no gripper command and no joint command.
C7_DegenerateFrameIsNoOp ==
    (Ended /\ Undefined) =>
        /\ pc # "raised"
        /\ cmds = <<>>
        /\ result = EmptyMap

\* C8: whatever calls were made (failed ones included) and whatever the
\* caller wrote into a returned mapping, crane_l_angles, neutral_position,
\* gripper_state and gripper_state_timer have the values __init__ gave them.
C8_EngineFieldsKept ==
    /\ crane_l_angles = [left_s0 |-> 350, left_s1 |-> 0, left_e0 |-> 0,
                         left_e1 |-> 1570, left_w0 |-> 0, left_w1 |-> 0,
                         left_w2 |-> 0]
    /\ neutral_position = [right_s0 |-> 0, right_s1 |-> 0, right_e0 |-> 1570,
                           right_e1 |-> 0, right_w0 |-> 0, right_w1 |-> 0,
                           right_w2 |-> 0]
    /\ gripper_state = TRUE
    /\ gripper_state_timer = 0

C8_Witness ==
    /\ pc = "mutated" /\ result["left_s0"] = 3000
    /\ probeOut.seen /\ probeOut.pc = "raised"

\* C9: the outcome of a call on a frame (returned or failed, the mapping, the
\* gripper command) is the one the same frame had the first time, whatever
\* was processed in between; a call that returns has issued exactly one
\* gripper command.
C9_FrameAloneDecides ==
    /\ (Ended /\ frame = probe /\ probeOut.seen) =>
           /\ probeOut.pc = pc
           /\ probeOut.cmds = cmds
           /\ probeOut.result = result
    /\ Done => (Len(cmds) = 1 /\ cmds[1] \in {"close", "open"})

C9_Witness ==
    Done /\ frame = probe /\ frame = BentFrame /\ probeOut.again
         /\ cmds = <<"close">>

\* C10: check_angles appends exactly seven values, s0, s1, e0, e1, w0, w1, w2
\* in that order, e0 as computed and the wrists -1.57, 0.00, -0.30; the
\* returned mapping has 14 keys and its right_* entries are those values in
\* the order of the joint names.
C10_SevenAnglesInOrder ==
    /\ call = "joint" => Len(angles) \in {0, 7}
    /\ Done =>
        /\ Len(angles) = 7
        /\ angles[1] \in {loc.s0, -250, 1600}
        /\ angles[2] \in {loc.s1, -2000, 900}
        /\ angles[3] = loc.e0 /\ loc.e0 = loc.t_e0
        /\ angles[4] \in {loc.e1, 100, 2500}
        /\ angles[5] = -1570 /\ angles[6] = 0 /\ angles[7] = -300
        /\ Cardinality(DOMAIN result) = 14
        /\ result["right_s0"] = angles[1] /\ result["right_s1"] = angles[2]
        /\ result["right_e0"] = angles[3] /\ result["right_e1"] = angles[4]
        /\ result["right_w0"] = angles[5] /\ result["right_w1"] = angles[6]
        /\ result["right_w2"] = angles[7]

C10_Witness ==
    Done /\ loc.e0 = HalfPi /\ angles[3] = HalfPi /\ angles[4] = 2500
         /\ loc.e1 = Pi

====
